---- MODULE Spec2Model ----
(***************************************************************************)
(* Read Buffer `Store` / `Database` of influxdb_iox                        *)
(* (read_buffer/src/lib.rs) as a state machine.                            *)
(*                                                                         *)
(* The Store is a map from database name to Database plus a running byte   *)
(* size.  add_database and the six query operations are implemented; every *)
(* other operation of Store and every operation of Database except size()  *)
(* has the body `todo!()`, which in Rust panics with "not yet implemented" *)
(* before it touches any state.  A panic is modelled as the call ending    *)
(* with the outcome Panic and the Store left as it was (the caller may     *)
(* catch the unwind and go on using the Store).                            *)
(***************************************************************************)
EXTENDS Integers, Sequences, FiniteSets, TLC

\* ------------------------------------------------------------------ bounds
\* Largest Store size the model lets add_database reach (u64 in the code;
\* the cap keeps the counter far below 2^64, so no overflow is modelled).
MaxStoreSize == 4
\* Timestamps range over -MaxTime..MaxTime (i64 in the code).
MaxTime == 2
\* Windows range over -MaxWindow..MaxWindow (i64 in the code).
MaxWindow == 1

\* ------------------------------------------------------------ input values
DbIds == {"db1", "db2"}
TableNames == {"cpu"}
Times == (0 - MaxTime)..MaxTime
Windows == (0 - MaxWindow)..MaxWindow
TIME_COLUMN_NAME == "time"
AggregateType == {"Count", "Sum", "Min", "Max", "First", "Last"}

\* Two chunks that share the group key host=serverA (a backfill).
Chunk1 == [rows |-> {[host |-> "serverA", value |-> 5, time |-> 0]}, size |-> 1]
Chunk2 == [rows |-> {[host |-> "serverA", value |-> 7, time |-> 1]}, size |-> 2]
ChunkPool == [chunk1 |-> Chunk1, chunk2 |-> Chunk2]

RECURSIVE SumChunkSize(_, _)
SumChunkSize(chunks, keys) ==
    IF keys = {} THEN 0
    ELSE LET k == CHOOSE x \in keys : TRUE
         IN chunks[k].size + SumChunkSize(chunks, keys \ {k})

\* struct Database { chunks, size }, with size the sum of its chunks' sizes.
Database(keys) ==
    LET chunks == [k \in keys |-> ChunkPool[k]]
    IN [chunks |-> chunks, size |-> SumChunkSize(chunks, keys)]

\* Database::new()
Database_new == Database({})

ChunkKeySets == {{}, {"chunk1"}, {"chunk1", "chunk2"}}
Databases == {Database(keys) : keys \in ChunkKeySets}

\* Database::size
Database_size(db) == db.size

\* ---------------------------------------------------------------- outcomes
None == [kind |-> "None"]
Unit == [kind |-> "unit"]
Panic == [kind |-> "panic"]
Value(v) == [kind |-> "value", value |-> v]

\* ------------------------------------------------------- time_range_predicate
time_range_predicate_lte(from, to) ==
    << [column |-> TIME_COLUMN_NAME, op |-> "GTE", value |-> from],
       [column |-> TIME_COLUMN_NAME, op |-> "LTE", value |-> to] >>

time_range_predicate(from, to) ==
    << [column |-> TIME_COLUMN_NAME, op |-> "GTE", value |-> from],
       [column |-> TIME_COLUMN_NAME, op |-> "LT", value |-> to] >>

\* column::cmp::Operator applied to a cell value and the predicate's literal.
Operator_eval(op, cell, literal) ==
    CASE op = "EQ" -> cell = literal
      [] op = "NEQ" -> cell # literal
      [] op = "GT" -> cell > literal
      [] op = "GTE" -> cell >= literal
      [] op = "LT" -> cell < literal
      [] op = "LTE" -> cell <= literal

\* A predicate list is the conjunction of its entries; here over a row that
\* carries only the time column.
Predicates_hold(predicates, t) ==
    \A i \in 1..Len(predicates) :
        predicates[i].column = TIME_COLUMN_NAME
            => Operator_eval(predicates[i].op, t, predicates[i].value)

TimeRanges == {<<0, MaxTime>>, <<MaxTime, 0>>}
PredicateLists == {<< >>, time_range_predicate(0, 1)}
ColumnLists == {<<"host">>}
AggregateLists ==
    {<<[column |-> "value", agg |-> p[1]], [column |-> "value", agg |-> p[2]]>> :
        p \in {<<"Count", "Sum">>, <<"Min", "Max">>, <<"First", "Last">>}}

\* ------------------------------------------------------------------ Database
\* Every query operation of Database is `todo!()`.
Database_select(db, table_name, time_range, predicates, select_columns) == Panic

Database_aggregate(db, table_name, time_range, predicates, group_columns, aggregates) == Panic

Database_aggregate_window(db, table_name, time_range, predicates, group_columns, aggregates, window) == Panic

Database_table_names(db, database_name, time_range, predicates) == Panic

Database_tag_keys(db, table_name, time_range, predicates) == Panic

Database_tag_values(db, table_name, time_range, predicates, tag_keys) == Panic

\* Database::add_chunk and Database::remove_chunk are `todo!()` as well.
Database_add_chunk(db, chunk) == Panic

Database_remove_chunk(db, chunk) == Panic

\* --------------------------------------------------------------------- Store
VARIABLES
    databases,  \* Store.databases: BTreeMap<String, Database>
    size,       \* Store.size: u64
    prev,       \* the Store as it was when the last call started
    last,       \* the last call: receiver, operation and arguments
    calls,      \* the Database operations the last Store call invoked
    result,     \* what the last call returned (or Panic)
    server,     \* the AppServer the routes share
    reqs        \* the write requests in flight, by request id

vars == <<databases, size, prev, last, calls, result, server, reqs>>

\* BTreeMap::insert
Insert(map, key, value) ==
    [k \in (DOMAIN map) \cup {key} |-> IF k = key THEN value ELSE map[k]]

\* Store::add_database, with `entry().or_insert()` in place of `insert()`.
add_database_keep_old(store, id, database) ==
    [databases |-> IF id \in DOMAIN store.databases THEN store.databases
                   ELSE Insert(store.databases, id, database),
     size |-> store.size + Database_size(database)]

\* Store::add_database
add_database(store, id, database) ==
    [databases |-> Insert(store.databases, id, database),
     size |-> store.size + Database_size(database)]

\* One invocation of a Database method by the Store.
Invocation(id, db, op, args) == [id |-> id, db |-> db, op |-> op, args |-> args]

\* Store::remove_database: `todo!()`, so the call panics and the Store is
\* left as it was, whether or not id is present.
remove_database(store, id) == [store |-> store, result |-> Panic]

\* Store::add_chunk: `todo!()`.
Store_add_chunk(store, database_id, chunk) == [store |-> store, result |-> Panic]

\* The chunks handed to Store::add_chunk: a record batch per table name.
ChunkBatches == {[cpu |-> Chunk1.rows], [cpu |-> Chunk2.rows]}

\* Store::select with the `return` lost: the database is queried, its result
\* dropped, and the function falls through to None.
Store_select_no_return(dbs, database_name, table_name, time_range, predicates, select_columns) ==
    IF database_name \in DOMAIN dbs
    THEN [calls |-> << Invocation(database_name, dbs[database_name], "select",
                         [table_name |-> table_name, time_range |-> time_range,
                          predicates |-> predicates, select_columns |-> select_columns]) >>,
          result |-> None]
    ELSE [calls |-> << >>, result |-> None]

\* Store::select
Store_select(dbs, database_name, table_name, time_range, predicates, select_columns) ==
    IF database_name \in DOMAIN dbs
    THEN [calls |-> << Invocation(database_name, dbs[database_name], "select",
                         [table_name |-> table_name, time_range |-> time_range,
                          predicates |-> predicates, select_columns |-> select_columns]) >>,
          result |-> Database_select(dbs[database_name], table_name, time_range,
                                     predicates, select_columns)]
    ELSE [calls |-> << >>, result |-> None]

\* Store::aggregate
Store_aggregate(dbs, database_name, table_name, time_range, predicates, group_columns, aggregates) ==
    IF database_name \in DOMAIN dbs
    THEN [calls |-> << Invocation(database_name, dbs[database_name], "aggregate",
                         [table_name |-> table_name, time_range |-> time_range,
                          predicates |-> predicates, group_columns |-> group_columns,
                          aggregates |-> aggregates]) >>,
          result |-> Database_aggregate(dbs[database_name], table_name, time_range,
                                        predicates, group_columns, aggregates)]
    ELSE [calls |-> << >>, result |-> None]

\* Store::aggregate_window delegating to Database::aggregate, the window lost.
Store_aggregate_window_unwindowed(dbs, database_name, table_name, time_range, predicates, group_columns, aggregates, window) ==
    Store_aggregate(dbs, database_name, table_name, time_range, predicates,
                    group_columns, aggregates)

\* Store::aggregate_window
Store_aggregate_window(dbs, database_name, table_name, time_range, predicates, group_columns, aggregates, window) ==
    IF database_name \in DOMAIN dbs
    THEN [calls |-> << Invocation(database_name, dbs[database_name], "aggregate_window",
                         [table_name |-> table_name, time_range |-> time_range,
                          predicates |-> predicates, group_columns |-> group_columns,
                          aggregates |-> aggregates, window |-> window]) >>,
          result |-> Database_aggregate_window(dbs[database_name], table_name, time_range,
                                               predicates, group_columns, aggregates, window)]
    ELSE [calls |-> << >>, result |-> None]

\* Store::table_names (Database::table_names takes the database name too)
Store_table_names(dbs, database_name, time_range, predicates) ==
    IF database_name \in DOMAIN dbs
    THEN [calls |-> << Invocation(database_name, dbs[database_name], "table_names",
                         [database_name |-> database_name, time_range |-> time_range,
                          predicates |-> predicates]) >>,
          result |-> Database_table_names(dbs[database_name], database_name,
                                          time_range, predicates)]
    ELSE [calls |-> << >>, result |-> None]

\* Store::tag_keys
Store_tag_keys(dbs, database_name, table_name, time_range, predicates) ==
    IF database_name \in DOMAIN dbs
    THEN [calls |-> << Invocation(database_name, dbs[database_name], "tag_keys",
                         [table_name |-> table_name, time_range |-> time_range,
                          predicates |-> predicates]) >>,
          result |-> Database_tag_keys(dbs[database_name], table_name,
                                       time_range, predicates)]
    ELSE [calls |-> << >>, result |-> None]

\* Store::tag_values
Store_tag_values(dbs, database_name, table_name, time_range, predicates, tag_keys) ==
    IF database_name \in DOMAIN dbs
    THEN [calls |-> << Invocation(database_name, dbs[database_name], "tag_values",
                         [table_name |-> table_name, time_range |-> time_range,
                          predicates |-> predicates, tag_keys |-> tag_keys]) >>,
          result |-> Database_tag_values(dbs[database_name], table_name,
                                         time_range, predicates, tag_keys)]
    ELSE [calls |-> << >>, result |-> None]

\* `db.<op>(args)`: the Database method an Invocation names, applied.
Database_invoke(c) ==
    CASE c.op = "select" ->
            Database_select(c.db, c.args.table_name, c.args.time_range,
                            c.args.predicates, c.args.select_columns)
      [] c.op = "aggregate" ->
            Database_aggregate(c.db, c.args.table_name, c.args.time_range,
                               c.args.predicates, c.args.group_columns, c.args.aggregates)
      [] c.op = "aggregate_window" ->
            Database_aggregate_window(c.db, c.args.table_name, c.args.time_range,
                                      c.args.predicates, c.args.group_columns,
                                      c.args.aggregates, c.args.window)
      [] c.op = "table_names" ->
            Database_table_names(c.db, c.args.database_name, c.args.time_range,
                                 c.args.predicates)
      [] c.op = "tag_keys" ->
            Database_tag_keys(c.db, c.args.table_name, c.args.time_range,
                              c.args.predicates)
      [] c.op = "tag_values" ->
            Database_tag_values(c.db, c.args.table_name, c.args.time_range,
                                c.args.predicates, c.args.tag_keys)

\* =============================================================== HTTP routes
\* src/server/http_routes.rs: the /api/v2/write, /api/v2/read,
\* /api/v1/partitions and /api/v1/snapshot handlers.

\* enum ApplicationError (the variants, without their payloads)
ApplicationError ==
    {"BucketByName", "BucketMappingError", "WritingPoints", "Query",
     "BucketNotFound", "RequestSizeExceeded", "ExpectedQueryString",
     "InvalidQueryString", "QueryError", "InvalidRequestBody",
     "InvalidContentEncoding", "ReadingHeaderAsUtf8", "ReadingBody",
     "ReadingBodyAsUtf8", "ParsingLineProtocol", "ReadingBodyAsGzip",
     "RouteNotFound", "DatabaseError", "JsonGenerationError"}

\* Result::Ok, Result::Err (a panic is the outcome Panic)
Ok(v) == [kind |-> "Ok", value |-> v]
Err(e) == [kind |-> "Err", error |-> e]

\* StatusCode
OK == 200
NO_CONTENT == 204
BAD_REQUEST == 400
NOT_FOUND == 404
INTERNAL_SERVER_ERROR == 500

\* Body::empty(), Body::from(..)
Body_empty == [kind |-> "empty"]
Body_from(content) == [kind |-> "content", content |-> content]

\* ApplicationError::body: the json {"error": self.to_string()}
ApplicationError_body(e) == Body_from([error |-> e])

\* A response, and who built it.
Response(status, body) == [status |-> status, body |-> body]

\* ApplicationError::bad_request
bad_request(e) == Response(BAD_REQUEST, ApplicationError_body(e))

\* ApplicationError::internal_error
internal_error(e) == Response(INTERNAL_SERVER_ERROR, ApplicationError_body(e))

\* ApplicationError::not_found
\* not_found with the error as its body, like the other two.
not_found_with_body(e) == Response(NOT_FOUND, ApplicationError_body(e))

not_found(e) == Response(NOT_FOUND, Body_empty)

\* ApplicationError::response with BucketMappingError taken for a request error.
ApplicationError_response_mapping_400(e) ==
    Ok(CASE e \in {"BucketByName", "WritingPoints", "Query",
                   "DatabaseError", "JsonGenerationError"} -> internal_error(e)
         [] e \in {"BucketNotFound", "RouteNotFound"} -> not_found(e)
         [] OTHER -> bad_request(e))

\* ApplicationError::response
ApplicationError_response(e) ==
    Ok(CASE e = "BucketByName" -> internal_error(e)
         [] e = "BucketMappingError" -> internal_error(e)
         [] e = "WritingPoints" -> internal_error(e)
         [] e = "Query" -> internal_error(e)
         [] e = "QueryError" -> bad_request(e)
         [] e = "BucketNotFound" -> not_found(e)
         [] e = "RequestSizeExceeded" -> bad_request(e)
         [] e = "ExpectedQueryString" -> bad_request(e)
         [] e = "InvalidQueryString" -> bad_request(e)
         [] e = "InvalidRequestBody" -> bad_request(e)
         [] e = "InvalidContentEncoding" -> bad_request(e)
         [] e = "ReadingHeaderAsUtf8" -> bad_request(e)
         [] e = "ReadingBody" -> bad_request(e)
         [] e = "ReadingBodyAsUtf8" -> bad_request(e)
         [] e = "ParsingLineProtocol" -> bad_request(e)
         [] e = "ReadingBodyAsGzip" -> bad_request(e)
         [] e = "RouteNotFound" -> not_found(e)
         [] e = "DatabaseError" -> internal_error(e)
         [] e = "JsonGenerationError" -> internal_error(e))

\* const MAX_SIZE
MAX_SIZE == 10485760

\* --------------------------------------------------------------- parse_body
\* Largest number of chunks a request body arrives in.
MaxChunks == 2

\* Content-Encoding header values, as bytes: "gzip", "GZIP", "gz\u{ef}p"
\* (UTF-8, not ASCII) and a value that is not UTF-8.
GZIP_VALUE == <<103, 122, 105, 112>>
HeaderValues ==
    {GZIP_VALUE, <<71, 90, 73, 80>>, <<103, 122, 195, 175, 112>>, <<103, 122, 255>>}
NoHeader == [present |-> FALSE]
Header(bytes) == [present |-> TRUE, bytes |-> bytes]
ContentEncodings == {NoHeader} \cup {Header(b) : b \in HeaderValues}

\* HeaderValue::to_str: Ok only when every byte is visible ASCII (or tab).
HeaderValue_to_str(bytes) ==
    IF \A i \in 1..Len(bytes) : (bytes[i] >= 32 /\ bytes[i] < 127) \/ bytes[i] = 9
    THEN Ok(bytes) ELSE Err("ToStrError")

\* The chunks the body stream yields: Ok(chunk of len bytes) or a read error.
Chunk_ok(len) == [ok |-> TRUE, len |-> len]
Chunk_err == [ok |-> FALSE, len |-> 0]
BodyChunks ==
    {Chunk_ok(n) : n \in {1, MAX_SIZE - 1, MAX_SIZE, MAX_SIZE + 1}} \cup {Chunk_err}
Payloads == UNION {[1..n -> BodyChunks] : n \in 0..MaxChunks}

\* What the received bytes gunzip to: nothing (not a gzip stream) or len bytes.
NotGzip == [valid |-> FALSE, len |-> 0]
Gzip(len) == [valid |-> TRUE, len |-> len]
GzipContents == {NotGzip, Gzip(1), Gzip(MAX_SIZE), Gzip(MAX_SIZE + 1)}

\* hyper::Request<Body>, as far as parse_body looks at it.
BodyRequest(content_encoding, payload, gzip) ==
    [content_encoding |-> content_encoding, payload |-> payload, gzip |-> gzip]
BodyRequests ==
    {BodyRequest(h, p, g) : h \in ContentEncodings, p \in Payloads, g \in GzipContents}

\* parse_body, lines 243-255: the Content-Encoding header decides ungzip.
ContentEncoding_ungzip(content_encoding) ==
    IF ~content_encoding.present THEN Ok(FALSE)
    ELSE IF HeaderValue_to_str(content_encoding.bytes).kind = "Err"
         THEN Err("ReadingHeaderAsUtf8")
    ELSE IF content_encoding.bytes = GZIP_VALUE THEN Ok(TRUE)
    ELSE Err("InvalidContentEncoding")

\* parse_body, lines 259-269: the loop that collects the payload into `body`.
\* lens is body.len() after each chunk that was appended, polled the number
\* of chunks taken from the stream.
RECURSIVE ReadPayload(_, _, _, _)
ReadPayload(payload, i, len, lens) ==
    IF i > Len(payload)
    THEN [end |-> "eof", len |-> len, lens |-> lens, polled |-> i - 1]
    ELSE IF ~payload[i].ok
    THEN [end |-> "panic", len |-> len, lens |-> lens, polled |-> i]
    ELSE IF len + payload[i].len > MAX_SIZE
    THEN [end |-> "exceeded", len |-> len, lens |-> lens, polled |-> i]
    ELSE ReadPayload(payload, i + 1, len + payload[i].len,
                     Append(lens, len + payload[i].len))

\* Bytes handed back by parse_body: how many, and whether they are the
\* bytes received or their decompression.
Bytes(len, form) == [len |-> len, form |-> form]

\* The decoder without the take(MAX_SIZE) limit.
Gunzip_unlimited(gzip) ==
    IF ~gzip.valid THEN Err("ReadingBodyAsGzip")
    ELSE Ok(Bytes(gzip.len, "gunzipped"))

\* parse_body, lines 273-287: GzDecoder limited by take(MAX_SIZE).
Gunzip(gzip) ==
    IF ~gzip.valid THEN Err("ReadingBodyAsGzip")
    ELSE Ok(Bytes(IF gzip.len > MAX_SIZE THEN MAX_SIZE ELSE gzip.len, "gunzipped"))

\* parse_body
parse_body(req) ==
    LET ungzip == ContentEncoding_ungzip(req.content_encoding)
        read == ReadPayload(req.payload, 1, 0, << >>)
    IN IF ungzip.kind = "Err"
       THEN [result |-> ungzip, lens |-> << >>, polled |-> 0]
       ELSE [result |-> CASE read.end = "panic" -> Panic
                          [] read.end = "exceeded" -> Err("RequestSizeExceeded")
                          [] OTHER -> IF ungzip.value THEN Gunzip(req.gzip)
                                      ELSE Ok(Bytes(read.len, "received")),
             lens |-> read.lens,
             polled |-> read.polled]

\* ---------------------------------------------------------------- the routes
\* Largest number of write requests in flight at once.
MaxRequests == 2

RequestIds == 1..MaxRequests

\* req.uri().query()
NoQuery == [present |-> FALSE]
Query(params) == [present |-> TRUE, params |-> params]

\* The fields of the structs the query strings are deserialized into.
WriteInfo == {"org", "bucket"}
ReadInfo == {"org", "bucket", "sql_query"}
DatabaseInfo == {"org", "bucket"}
SnapshotInfo == {"org", "bucket", "chunk"}

\* serde_urlencoded::from_str: every field of the struct must be given.
from_str(query, fields) ==
    IF fields \subseteq DOMAIN query.params THEN Ok(query.params) ELSE Err("serde")

\* org_and_bucket_to_database: "<org>_<bucket>", refused for names that
\* cannot be part of a database name.
MappableNames == {"MyOrg", "MyBucket", "Other"}
DatabaseName(org, bucket) == <<org, "_", bucket>>
org_and_bucket_to_database(org, bucket) ==
    IF org \in MappableNames /\ bucket \in MappableNames
    THEN Ok(DatabaseName(org, bucket)) ELSE Err("OrgBucketMappingError")

\* The opening of every route: query string, its struct, the database name.
request_db_name(query, fields) ==
    IF ~query.present THEN Err("ExpectedQueryString")
    ELSE IF from_str(query, fields).kind = "Err" THEN Err("InvalidQueryString")
    ELSE LET info == from_str(query, fields).value
             db_name == org_and_bucket_to_database(info.org, info.bucket)
         IN IF db_name.kind = "Err" THEN Err("BucketMappingError")
            ELSE Ok([info |-> info, db_name |-> db_name.value])

\* What the bytes of a body are as text: UTF-8 or not, line protocol or not.
Text(utf8, lines_ok) == [utf8 |-> utf8, lines_ok |-> lines_ok]

\* str::from_utf8
from_utf8(text) == IF text.utf8 THEN Ok(text) ELSE Err("Utf8Error")

\* influxdb_line_protocol::parse_lines, collected into a Result
parse_lines(text) == IF text.lines_ok THEN Ok("lines") ELSE Err("influxdb_line_protocol::Error")

\* A request to /api/v2/write.
WriteRequest(query, body, text) == [query |-> query, body |-> body, text |-> text]

\* write that goes on to the server although a line did not parse.
write_validate_lossy(req) ==
    LET named == request_db_name(req.query, WriteInfo)
        body == parse_body(req.body).result
    IN IF named.kind = "Err" THEN named
       ELSE IF body.kind # "Ok" THEN body
       ELSE IF from_utf8(req.text).kind = "Err" THEN Err("ReadingBodyAsUtf8")
       ELSE Ok([db_name |-> named.value.db_name, lines |-> "lines"])

\* write, lines 314-329: everything before the server is used.
write_validate(req) ==
    LET named == request_db_name(req.query, WriteInfo)
        body == parse_body(req.body).result
    IN IF named.kind = "Err" THEN named
       ELSE IF body.kind # "Ok" THEN body
       ELSE IF from_utf8(req.text).kind = "Err" THEN Err("ReadingBodyAsUtf8")
       ELSE IF parse_lines(req.text).kind = "Err" THEN Err("ParsingLineProtocol")
       ELSE Ok([db_name |-> named.value.db_name, lines |-> parse_lines(req.text).value])

\* write_handler, read_handler, list_partitions_handler,
\* snapshot_partition_handler: an Err of the route becomes e.response().
handler(res) == IF res.kind = "Err" THEN ApplicationError_response(res.error) ELSE res

\* error_handler
error_handler(err) == Response(INTERNAL_SERVER_ERROR, Body_from([error |-> err]))

\* How the router answers a request whose route ended with res: with the
\* handler's response, with error_handler's when the handler returned Err,
\* with none when the handler panicked.
Served(res) ==
    LET h == handler(res)
    IN CASE h.kind = "Ok" ->
              [by |-> "handler", response |-> h.value,
               error |-> IF res.kind = "Err" THEN res.error ELSE "none"]
         [] h.kind = "Err" ->
              [by |-> "error_handler", response |-> error_handler(h.error),
               error |-> h.error]
         [] OTHER -> [by |-> "panic", response |-> None, error |-> "none"]

\* ----------------------------------------------------------------- AppServer
\* server::db::Db: the batches of lines in its open chunk and in closed ones.
Db_new == [open |-> {}, closed |-> {}]

\* server::server::Server: its databases, and how often one was created.
Server_new == [databases |-> << >>, created |-> 0]

\* Whether a call into the server crate succeeds is the server's choice.
CallOutcomes == {"ok", "err"}

\* Server::db
Server_db(srv, db_name) ==
    IF db_name \in DOMAIN srv.databases THEN Value(srv.databases[db_name]) ELSE None

\* Server::create_database: the new database takes the name, also when the
\* name is taken already.
Server_create_database(srv, db_name, outcome) ==
    IF outcome = "err" THEN [server |-> srv, result |-> Err("server::Error")]
    ELSE [server |-> [databases |-> Insert(srv.databases, db_name, Db_new),
                      created |-> srv.created + 1],
          result |-> Ok(Unit)]

\* Server::write_lines
Server_write_lines(srv, db_name, batch, outcome) ==
    IF outcome = "err" \/ db_name \notin DOMAIN srv.databases
    THEN [server |-> srv, result |-> Err("server::Error")]
    ELSE LET db == srv.databases[db_name]
         IN [server |-> [srv EXCEPT !.databases =
                             Insert(srv.databases, db_name,
                                    [db EXCEPT !.open = db.open \cup {batch}])],
             result |-> Ok(Unit)]

\* Db::partition_keys
Db_partition_keys(db) == IF db.open \cup db.closed = {} THEN << >> ELSE <<"p1">>

\* Db::rollover_partition: the open chunk is closed.
Db_rollover_partition(db) == [open |-> {}, closed |-> db.closed \cup db.open]

\* Which of a route's fallible calls returns Err: none, the first, the second.
Failures == 0..2

\* read, lines 406-427
read(srv, req, fails) ==
    LET named == request_db_name(req.query, ReadInfo)
    IN IF named.kind = "Err" THEN [server |-> srv, result |-> named, log |-> << >>]
       ELSE IF Server_db(srv, named.value.db_name) = None
       THEN [server |-> srv, result |-> Err("BucketNotFound"), log |-> <<"db">>]
       ELSE IF fails = 1
       THEN [server |-> srv, result |-> Err("QueryError"), log |-> <<"db", "query">>]
       ELSE IF fails = 2
       THEN [server |-> srv, result |-> Panic, log |-> <<"db", "query">>]
       ELSE [server |-> srv, result |-> Ok(Response(OK, Body_from("batches"))),
             log |-> <<"db", "query">>]

\* list_partitions, lines 467-492
list_partitions(srv, req, fails) ==
    LET named == request_db_name(req.query, DatabaseInfo)
    IN IF named.kind = "Err" THEN [server |-> srv, result |-> named, log |-> << >>]
       ELSE IF Server_db(srv, named.value.db_name) = None
       THEN [server |-> srv, result |-> Err("BucketNotFound"), log |-> <<"db">>]
       ELSE IF fails = 1
       THEN [server |-> srv, result |-> Err("BucketByName"), log |-> <<"db", "partition_keys">>]
       ELSE IF fails = 2
       THEN [server |-> srv, result |-> Err("JsonGenerationError"),
             log |-> <<"db", "partition_keys">>]
       ELSE [server |-> srv,
             result |-> Ok(Response(OK, Body_from(
                 Db_partition_keys(Server_db(srv, named.value.db_name).value)))),
             log |-> <<"db", "partition_keys">>]

\* snapshot_partition, lines 528-557
snapshot_partition(srv, req, fails) ==
    LET named == request_db_name(req.query, SnapshotInfo)
    IN IF named.kind = "Err" THEN [server |-> srv, result |-> named, log |-> << >>]
       ELSE IF Server_db(srv, named.value.db_name) = None
       THEN [server |-> srv, result |-> Err("BucketNotFound"), log |-> <<"db">>]
       ELSE LET db_name == named.value.db_name
                rolled == [srv EXCEPT !.databases[db_name] =
                               Db_rollover_partition(srv.databases[db_name])]
            IN IF fails = 1
               THEN [server |-> srv, result |-> Panic, log |-> <<"db", "rollover_partition">>]
               ELSE IF fails = 2
               THEN [server |-> rolled, result |-> Panic,
                     log |-> <<"db", "rollover_partition", "snapshot_chunk">>]
               ELSE [server |-> rolled, result |-> Ok(Response(OK, Body_from("snapshot.id"))),
                     log |-> <<"db", "rollover_partition", "snapshot_chunk">>]

\* ping
ping == Ok(Response(OK, Body_from("PONG")))

\* ------------------------------------------------------- requests to serve
GoodQuery == Query([org |-> "MyOrg", bucket |-> "MyBucket"])
PlainBody == BodyRequest(NoHeader, <<Chunk_ok(1)>>, NotGzip)
GzipBody == BodyRequest(Header(GZIP_VALUE), <<Chunk_ok(1)>>, Gzip(1))
LineProtocol == Text(TRUE, TRUE)

\* Two requests that pass every test of write, and one that fails each test.
WriteRequests ==
    {WriteRequest(GoodQuery, PlainBody, LineProtocol),
     WriteRequest(GoodQuery, GzipBody, LineProtocol),
     WriteRequest(NoQuery, PlainBody, LineProtocol),
     WriteRequest(Query([bucket |-> "MyBucket"]), PlainBody, LineProtocol),
     WriteRequest(Query([org |-> "My_Org", bucket |-> "MyBucket"]), PlainBody, LineProtocol),
     WriteRequest(GoodQuery, BodyRequest(Header(<<71, 90, 73, 80>>), <<Chunk_ok(1)>>, NotGzip),
                  LineProtocol),
     WriteRequest(GoodQuery, BodyRequest(NoHeader, <<Chunk_ok(MAX_SIZE), Chunk_ok(1)>>, NotGzip),
                  LineProtocol),
     WriteRequest(GoodQuery, BodyRequest(NoHeader, <<Chunk_err>>, NotGzip), LineProtocol),
     WriteRequest(GoodQuery, BodyRequest(Header(GZIP_VALUE), <<Chunk_ok(1)>>, NotGzip),
                  LineProtocol),
     WriteRequest(GoodQuery, PlainBody, Text(FALSE, FALSE)),
     WriteRequest(GoodQuery, PlainBody, Text(TRUE, FALSE))}

\* Query strings of the other routes: none, one without `org`, one whose org
\* cannot be mapped, one for the database writes go to, one for another.
RouteQueries(more) ==
    {NoQuery, Query([bucket |-> "MyBucket"])}
    \cup {Query([org |-> o, bucket |-> b] @@ more) :
            o \in {"MyOrg", "My_Org"}, b \in {"MyBucket", "Other"}}

ReadRequests == {[query |-> q] : q \in RouteQueries([sql_query |-> "select * from cpu"])}
PartitionsRequests == {[query |-> q] : q \in RouteQueries(<< >>)}
SnapshotRequests == {[query |-> q] : q \in RouteQueries([chunk |-> "p1"])}

\* ---------------------------------------------------------------- behaviour
\* Store::new()
Store_new == [databases |-> << >>, size |-> 0]

NoArgs == [none |-> TRUE]

\* The record of a call: its receiver, its name and its arguments.
Call(on, op, args) == [on |-> on, op |-> op, args |-> args]

\* A write request that has not arrived yet.
Request_new == [pc |-> "idle", req |-> NoArgs, db_name |-> << >>, log |-> << >>, served |-> None]

Init ==
    /\ databases = Store_new.databases
    /\ size = Store_new.size
    /\ prev = Store_new
    /\ last = Call("Store", "new", NoArgs)
    /\ calls = << >>
    /\ result = Value(Store_new)
    /\ server = Server_new
    /\ reqs = [r \in RequestIds |-> Request_new]

Self == [databases |-> databases, size |-> size]

AddDatabase ==
    \E id \in DbIds, database \in Databases :
        /\ size + Database_size(database) <= MaxStoreSize
        /\ prev' = Self
        /\ UNCHANGED <<server, reqs>>
        /\ last' = Call("Store", "add_database", [id |-> id, database |-> database])
        /\ databases' = add_database(Self, id, database).databases
        /\ size' = add_database(Self, id, database).size
        /\ calls' = << >>
        /\ result' = Unit

RemoveDatabase ==
    \E id \in DbIds :
        /\ prev' = Self
        /\ UNCHANGED <<server, reqs>>
        /\ last' = Call("Store", "remove_database", [id |-> id])
        /\ databases' = remove_database(Self, id).store.databases
        /\ size' = remove_database(Self, id).store.size
        /\ calls' = << >>
        /\ result' = remove_database(Self, id).result

StoreAddChunk ==
    \E database_id \in DbIds, chunk \in ChunkBatches :
        /\ prev' = Self
        /\ UNCHANGED <<server, reqs>>
        /\ last' = Call("Store", "add_chunk", [database_id |-> database_id, chunk |-> chunk])
        /\ databases' = Store_add_chunk(Self, database_id, chunk).store.databases
        /\ size' = Store_add_chunk(Self, database_id, chunk).store.size
        /\ calls' = << >>
        /\ result' = Store_add_chunk(Self, database_id, chunk).result

StoreSelect ==
    \E database_name \in DbIds, table_name \in TableNames, time_range \in TimeRanges,
       predicates \in PredicateLists, select_columns \in ColumnLists :
        /\ prev' = Self
        /\ UNCHANGED <<server, reqs>>
        /\ last' = Call("Store", "select",
                   [database_name |-> database_name,
                    table_name |-> table_name,
                    time_range |-> time_range,
                    predicates |-> predicates,
                    select_columns |-> select_columns])
        /\ calls' = Store_select(databases, database_name, table_name, time_range, predicates, select_columns).calls
        /\ result' = Store_select(databases, database_name, table_name, time_range, predicates, select_columns).result
        /\ UNCHANGED <<databases, size>>

StoreAggregate ==
    \E database_name \in DbIds, table_name \in TableNames, time_range \in TimeRanges,
       predicates \in PredicateLists, group_columns \in ColumnLists,
       aggregates \in AggregateLists :
        /\ prev' = Self
        /\ UNCHANGED <<server, reqs>>
        /\ last' = Call("Store", "aggregate",
                   [database_name |-> database_name,
                    table_name |-> table_name,
                    time_range |-> time_range,
                    predicates |-> predicates,
                    group_columns |-> group_columns,
                    aggregates |-> aggregates])
        /\ calls' = Store_aggregate(databases, database_name, table_name, time_range, predicates, group_columns, aggregates).calls
        /\ result' = Store_aggregate(databases, database_name, table_name, time_range, predicates, group_columns, aggregates).result
        /\ UNCHANGED <<databases, size>>

StoreAggregateWindow ==
    \E database_name \in DbIds, table_name \in TableNames, time_range \in TimeRanges,
       predicates \in PredicateLists, group_columns \in ColumnLists,
       aggregates \in AggregateLists, window \in Windows :
        /\ prev' = Self
        /\ UNCHANGED <<server, reqs>>
        /\ last' = Call("Store", "aggregate_window",
                   [database_name |-> database_name,
                    table_name |-> table_name,
                    time_range |-> time_range,
                    predicates |-> predicates,
                    group_columns |-> group_columns,
                    aggregates |-> aggregates,
                    window |-> window])
        /\ calls' = Store_aggregate_window(databases, database_name, table_name, time_range, predicates, group_columns, aggregates, window).calls
        /\ result' = Store_aggregate_window(databases, database_name, table_name, time_range, predicates, group_columns, aggregates, window).result
        /\ UNCHANGED <<databases, size>>

\* table_names that drops the database it was asked about.
StoreTableNames_evicting ==
    \E database_name \in DbIds, time_range \in TimeRanges, predicates \in PredicateLists :
        /\ prev' = Self
        /\ UNCHANGED <<server, reqs>>
        /\ last' = Call("Store", "table_names",
                   [database_name |-> database_name,
                    time_range |-> time_range,
                    predicates |-> predicates])
        /\ calls' = Store_table_names(databases, database_name, time_range, predicates).calls
        /\ result' = Store_table_names(databases, database_name, time_range, predicates).result
        /\ databases' = [k \in (DOMAIN databases) \ {database_name} |-> databases[k]]
        /\ UNCHANGED size

StoreTableNames ==
    \E database_name \in DbIds, time_range \in TimeRanges, predicates \in PredicateLists :
        /\ prev' = Self
        /\ UNCHANGED <<server, reqs>>
        /\ last' = Call("Store", "table_names",
                   [database_name |-> database_name,
                    time_range |-> time_range,
                    predicates |-> predicates])
        /\ calls' = Store_table_names(databases, database_name, time_range, predicates).calls
        /\ result' = Store_table_names(databases, database_name, time_range, predicates).result
        /\ UNCHANGED <<databases, size>>

StoreTagKeys ==
    \E database_name \in DbIds, table_name \in TableNames, time_range \in TimeRanges,
       predicates \in PredicateLists :
        /\ prev' = Self
        /\ UNCHANGED <<server, reqs>>
        /\ last' = Call("Store", "tag_keys",
                   [database_name |-> database_name,
                    table_name |-> table_name,
                    time_range |-> time_range,
                    predicates |-> predicates])
        /\ calls' = Store_tag_keys(databases, database_name, table_name, time_range, predicates).calls
        /\ result' = Store_tag_keys(databases, database_name, table_name, time_range, predicates).result
        /\ UNCHANGED <<databases, size>>

StoreTagValues ==
    \E database_name \in DbIds, table_name \in TableNames, time_range \in TimeRanges,
       predicates \in PredicateLists, tag_keys \in ColumnLists :
        /\ prev' = Self
        /\ UNCHANGED <<server, reqs>>
        /\ last' = Call("Store", "tag_values",
                   [database_name |-> database_name,
                    table_name |-> table_name,
                    time_range |-> time_range,
                    predicates |-> predicates,
                    tag_keys |-> tag_keys])
        /\ calls' = Store_tag_values(databases, database_name, table_name, time_range, predicates, tag_keys).calls
        /\ result' = Store_tag_values(databases, database_name, table_name, time_range, predicates, tag_keys).result
        /\ UNCHANGED <<databases, size>>

DatabaseSelect ==
    \E db \in Databases, table_name \in TableNames, time_range \in TimeRanges,
       predicates \in PredicateLists, select_columns \in ColumnLists :
        /\ prev' = Self
        /\ UNCHANGED <<server, reqs>>
        /\ last' = Call("Database", "select",
                   [db |-> db,
                    table_name |-> table_name,
                    time_range |-> time_range,
                    predicates |-> predicates,
                    select_columns |-> select_columns])
        /\ calls' = << >>
        /\ result' = Database_select(db, table_name, time_range, predicates, select_columns)
        /\ UNCHANGED <<databases, size>>

DatabaseAggregate ==
    \E db \in Databases, table_name \in TableNames, time_range \in TimeRanges,
       predicates \in PredicateLists, group_columns \in ColumnLists,
       aggregates \in AggregateLists :
        /\ prev' = Self
        /\ UNCHANGED <<server, reqs>>
        /\ last' = Call("Database", "aggregate",
                   [db |-> db,
                    table_name |-> table_name,
                    time_range |-> time_range,
                    predicates |-> predicates,
                    group_columns |-> group_columns,
                    aggregates |-> aggregates])
        /\ calls' = << >>
        /\ result' = Database_aggregate(db, table_name, time_range, predicates, group_columns, aggregates)
        /\ UNCHANGED <<databases, size>>

DatabaseAggregateWindow ==
    \E db \in Databases, table_name \in TableNames, time_range \in TimeRanges,
       predicates \in PredicateLists, group_columns \in ColumnLists,
       aggregates \in AggregateLists, window \in Windows :
        /\ prev' = Self
        /\ UNCHANGED <<server, reqs>>
        /\ last' = Call("Database", "aggregate_window",
                   [db |-> db,
                    table_name |-> table_name,
                    time_range |-> time_range,
                    predicates |-> predicates,
                    group_columns |-> group_columns,
                    aggregates |-> aggregates,
                    window |-> window])
        /\ calls' = << >>
        /\ result' = Database_aggregate_window(db, table_name, time_range, predicates, group_columns, aggregates, window)
        /\ UNCHANGED <<databases, size>>

DatabaseAddChunk ==
    \E db \in Databases, chunk \in {Chunk1, Chunk2} :
        /\ prev' = Self
        /\ UNCHANGED <<server, reqs>>
        /\ last' = Call("Database", "add_chunk", [db |-> db, chunk |-> chunk])
        /\ calls' = << >>
        /\ result' = Database_add_chunk(db, chunk)
        /\ UNCHANGED <<databases, size>>

DatabaseRemoveChunk ==
    \E db \in Databases, chunk \in {Chunk1, Chunk2} :
        /\ prev' = Self
        /\ UNCHANGED <<server, reqs>>
        /\ last' = Call("Database", "remove_chunk", [db |-> db, chunk |-> chunk])
        /\ calls' = << >>
        /\ result' = Database_remove_chunk(db, chunk)
        /\ UNCHANGED <<databases, size>>

TimeRangePredicate ==
    \E from \in Times, to \in Times :
        /\ prev' = Self
        /\ UNCHANGED <<server, reqs>>
        /\ last' = Call("lib", "time_range_predicate", [from |-> from, to |-> to])
        /\ calls' = << >>
        /\ result' = Value(time_range_predicate(from, to))
        /\ UNCHANGED <<databases, size>>

Next ==
    \/ AddDatabase
    \/ RemoveDatabase
    \/ StoreAddChunk
    \/ StoreSelect
    \/ StoreAggregate
    \/ StoreAggregateWindow
    \/ StoreTableNames
    \/ StoreTagKeys
    \/ StoreTagValues
    \/ DatabaseSelect
    \/ DatabaseAggregate
    \/ DatabaseAggregateWindow
    \/ DatabaseAddChunk
    \/ DatabaseRemoveChunk
    \/ TimeRangePredicate

Spec == Init /\ [][Next]_vars

\* ------------------------------------------- the HTTP routes' pure functions
\* e.response() for any error the routes can raise.
ErrorResponse ==
    \E e \in ApplicationError :
        /\ prev' = Self
        /\ UNCHANGED <<server, reqs>>
        /\ last' = Call("ApplicationError", "response", [error |-> e])
        /\ calls' = << >>
        /\ result' = ApplicationError_response(e)
        /\ UNCHANGED <<databases, size>>

\* parse_body(req) for any request.
ParseBody ==
    \E req \in BodyRequests :
        /\ prev' = Self
        /\ UNCHANGED <<server, reqs>>
        /\ last' = Call("http_routes", "parse_body", [req |-> req])
        /\ calls' = << >>
        /\ result' = parse_body(req)
        /\ UNCHANGED <<databases, size>>

BodyNext ==
    \/ ErrorResponse
    \/ ParseBody

BodySpec == Init /\ [][BodyNext]_vars

\* --------------------------------------------------------- the HTTP routes
\* write up to its first use of the server: a request that fails a test is
\* answered at once.
WriteBegin(r) ==
    /\ reqs[r].pc = "idle"
    /\ r > 1 => reqs[r - 1].pc # "idle"
    /\ \E req \in WriteRequests :
          LET v == write_validate(req)
          IN reqs' = [reqs EXCEPT ![r] =
                 IF v.kind = "Ok"
                 THEN [pc |-> "db", req |-> req, db_name |-> v.value.db_name,
                       log |-> << >>, served |-> None]
                 ELSE [pc |-> "done", req |-> req, db_name |-> << >>,
                       log |-> << >>, served |-> Served(v)]]
    /\ UNCHANGED <<databases, size, prev, last, calls, result, server>>

\* write without the creation of a missing database.
WriteDb_never_creates(r) ==
    /\ reqs[r].pc = "db"
    /\ LET found == Server_db(server, reqs[r].db_name)
       IN reqs' = [reqs EXCEPT ![r].pc = "write_lines",
                               ![r].log = Append(@, <<"db", found.kind>>)]
    /\ UNCHANGED <<databases, size, prev, last, calls, result, server>>

\* write, line 340: server.db(&db_name).await.is_none()
WriteDb(r) ==
    /\ reqs[r].pc = "db"
    /\ LET found == Server_db(server, reqs[r].db_name)
       IN reqs' = [reqs EXCEPT ![r].pc = IF found = None THEN "create_database"
                                          ELSE "write_lines",
                               ![r].log = Append(@, <<"db", found.kind>>)]
    /\ UNCHANGED <<databases, size, prev, last, calls, result, server>>

\* write, lines 346-353: server.create_database(..).await
WriteCreateDatabase(r) ==
    /\ reqs[r].pc = "create_database"
    /\ \E outcome \in CallOutcomes :
          LET c == Server_create_database(server, reqs[r].db_name, outcome)
          IN /\ server' = c.server
             /\ reqs' = [reqs EXCEPT
                    ![r].pc = IF c.result.kind = "Err" THEN "done" ELSE "write_lines",
                    ![r].log = Append(@, <<"create_database", c.result.kind>>),
                    ![r].served = IF c.result.kind = "Err"
                                  THEN Served(Err("WritingPoints")) ELSE None]
    /\ UNCHANGED <<databases, size, prev, last, calls, result>>

\* write, lines 356-368: server.write_lines(..).await and the 204.
WriteWriteLines(r) ==
    /\ reqs[r].pc = "write_lines"
    /\ \E outcome \in CallOutcomes :
          LET w == Server_write_lines(server, reqs[r].db_name, r, outcome)
          IN /\ server' = w.server
             /\ reqs' = [reqs EXCEPT
                    ![r].pc = "done",
                    ![r].log = Append(@, <<"write_lines", w.result.kind>>),
                    ![r].served = IF w.result.kind = "Err"
                                  THEN Served(Err("WritingPoints"))
                                  ELSE Served(Ok(Response(NO_CONTENT, Body_empty)))]
    /\ UNCHANGED <<databases, size, prev, last, calls, result>>

HttpNext ==
    \/ \E r \in RequestIds : WriteBegin(r)
    \/ \E r \in RequestIds : WriteDb(r)
    \/ \E r \in RequestIds : WriteCreateDatabase(r)
    \/ \E r \in RequestIds : WriteWriteLines(r)

HttpSpec == Init /\ [][HttpNext]_vars

Read ==
    \E req \in ReadRequests, fails \in Failures :
        /\ prev' = Self
        /\ last' = Call("http_routes", "read", [req |-> req, fails |-> fails])
        /\ calls' = read(server, req, fails).log
        /\ result' = Served(read(server, req, fails).result)
        /\ server' = read(server, req, fails).server
        /\ UNCHANGED <<databases, size, reqs>>

ListPartitions ==
    \E req \in PartitionsRequests, fails \in Failures :
        /\ prev' = Self
        /\ last' = Call("http_routes", "list_partitions", [req |-> req, fails |-> fails])
        /\ calls' = list_partitions(server, req, fails).log
        /\ result' = Served(list_partitions(server, req, fails).result)
        /\ server' = list_partitions(server, req, fails).server
        /\ UNCHANGED <<databases, size, reqs>>

SnapshotPartition ==
    \E req \in SnapshotRequests, fails \in Failures :
        /\ prev' = Self
        /\ last' = Call("http_routes", "snapshot_partition", [req |-> req, fails |-> fails])
        /\ calls' = snapshot_partition(server, req, fails).log
        /\ result' = Served(snapshot_partition(server, req, fails).result)
        /\ server' = snapshot_partition(server, req, fails).server
        /\ UNCHANGED <<databases, size, reqs>>

Ping ==
    /\ prev' = Self
    /\ last' = Call("http_routes", "ping", NoArgs)
    /\ calls' = << >>
    /\ result' = Served(ping)
    /\ UNCHANGED <<databases, size, server, reqs>>

\* The server as write requests leave it: without the database, with the
\* database created and nothing written, with one batch written.
ServerStates ==
    {Server_new,
     Server_create_database(Server_new, DatabaseName("MyOrg", "MyBucket"), "ok").server,
     Server_write_lines(
         Server_create_database(Server_new, DatabaseName("MyOrg", "MyBucket"), "ok").server,
         DatabaseName("MyOrg", "MyBucket"), 1, "ok").server}

RouteInit ==
    /\ databases = Store_new.databases
    /\ size = Store_new.size
    /\ prev = Store_new
    /\ last = Call("Store", "new", NoArgs)
    /\ calls = << >>
    /\ result = Value(Store_new)
    /\ server \in ServerStates
    /\ reqs = [r \in RequestIds |-> Request_new]

RouteNext ==
    \/ Read
    \/ ListPartitions
    \/ SnapshotPartition
    \/ Ping

RouteSpec == RouteInit /\ [][RouteNext]_vars

\* ==================================================================== claims
QueryOps == {"select", "aggregate", "aggregate_window", "table_names", "tag_keys", "tag_values"}

StoreCall(op) == last.on = "Store" /\ last.op = op
StoreQueryCall == last.on = "Store" /\ last.op \in QueryOps
DatabaseCall(op) == last.on = "Database" /\ last.op = op

RECURSIVE SumDatabaseSize(_, _)
SumDatabaseSize(map, ids) ==
    IF ids = {} THEN 0
    ELSE LET id == CHOOSE x \in ids : TRUE
         IN Database_size(map[id]) + SumDatabaseSize(map, ids \ {id})

AddDatabaseInsertsAndAddsSize ==
    StoreCall("add_database") =>
        /\ last.args.id \in DOMAIN databases
        /\ databases[last.args.id] = last.args.database
        /\ size = prev.size + Database_size(last.args.database)
        /\ \A k \in DbIds \ {last.args.id} :
              /\ k \in DOMAIN databases <=> k \in DOMAIN prev.databases
              /\ k \in DOMAIN databases => databases[k] = prev.databases[k]

\* C2 witness: add_database replaced a different database stored under id
\* while another id was present.
AddDatabaseReplaced ==
    /\ StoreCall("add_database")
    /\ last.args.id \in DOMAIN prev.databases
    /\ prev.databases[last.args.id] # last.args.database
    /\ Database_size(last.args.database) > 0
    /\ \E k \in DOMAIN prev.databases : k # last.args.id

\* C3: remove_database(id) removes the database under id and subtracts its
\* size when id is present, and fails with NotFound, the Store unchanged,
\* when id is absent.
RemoveDatabaseRemovesOrNotFound ==
    StoreCall("remove_database") =>
        IF last.args.id \in DOMAIN prev.databases
        THEN /\ result = Unit
             /\ DOMAIN databases = (DOMAIN prev.databases) \ {last.args.id}
             /\ \A k \in DOMAIN databases : databases[k] = prev.databases[k]
             /\ size = prev.size - Database_size(prev.databases[last.args.id])
        ELSE /\ result = [kind |-> "error", error |-> "NotFound"]
             /\ Self = prev

HandedOn(op, args) ==
    IF op = "table_names" THEN args
    ELSE [f \in (DOMAIN args) \ {"database_name"} |-> args[f]]

\* C5: a Store query on a present database invokes the same-named operation
\* of exactly that database, once, with the arguments it received, and
\* returns that operation's result unmodified.
StoreQueryDelegates ==
    (StoreQueryCall /\ last.args.database_name \in DOMAIN databases) =>
        /\ Len(calls) = 1
        /\ calls[1].id = last.args.database_name
        /\ calls[1].db = databases[last.args.database_name]
        /\ calls[1].op = last.op
        /\ calls[1].args = HandedOn(last.op, last.args)
        /\ result = Database_invoke(calls[1])

\* C5 witness: aggregate_window was delegated to one of two different
\* databases in the Store.
DelegatedAggregateWindow ==
    /\ StoreCall("aggregate_window")
    /\ last.args.database_name \in DOMAIN databases
    /\ \E k \in DOMAIN databases : databases[k] # databases[last.args.database_name]
    /\ Len(calls) = 1

\* C6: time_range_predicate(from, to) returns exactly `time >= from` then
\* `time < to`, and a timestamp t satisfies both iff from <= t < to.
TimeRangePredicateIsHalfOpen ==
    last.op = "time_range_predicate" =>
        /\ result = Value(<< [column |-> "time", op |-> "GTE", value |-> last.args.from],
                             [column |-> "time", op |-> "LT", value |-> last.args.to] >>)
        /\ \A t \in Times :
              Predicates_hold(result.value, t)
                  <=> (last.args.from <= t /\ t < last.args.to)

\* C6 witness: a non-empty range whose lower bound is admitted and whose
\* upper bound is not.
TimeRangePredicateNonEmpty ==
    /\ last.op = "time_range_predicate"
    /\ last.args.from < last.args.to
    /\ Predicates_hold(result.value, last.args.from)
    /\ ~Predicates_hold(result.value, last.args.to)

\* C7: a range with to <= from is accepted and empty: time_range_predicate
\* returns its two predicates, no timestamp satisfies both, and a query over
\* such a range on a database yields an empty result, not an error.
EmptyRangeYieldsEmptyResult ==
    /\ (last.op = "time_range_predicate" /\ last.args.to <= last.args.from) =>
          /\ result.kind = "value"
          /\ Len(result.value) = 2
          /\ \A t \in Times : ~Predicates_hold(result.value, t)
    /\ ( /\ last.op \in QueryOps
         /\ last.on = "Store" => last.args.database_name \in DOMAIN databases
         /\ last.args.time_range[2] <= last.args.time_range[1] ) =>
          /\ result.kind # "panic"
          /\ result.kind = "value" => result.value.rows = {}

\* C8: aggregate_window with window <= 0 is answered with an InvalidArgument
\* error, at Store and at Database level.
NonPositiveWindowIsInvalidArgument ==
    (last.op = "aggregate_window" /\ last.args.window <= 0) =>
        result = [kind |-> "error", error |-> "InvalidArgument"]

\* The rows of a database, each with the key of its chunk.
AllRows(db) == UNION {{<<k, r>> : r \in db.chunks[k].rows} : k \in DOMAIN db.chunks}

\* The rows inside [from, to) that satisfy the predicates.
Surviving(db, time_range, predicates) ==
    {p \in AllRows(db) : /\ time_range[1] <= p[2].time
                         /\ p[2].time < time_range[2]
                         /\ Predicates_hold(predicates, p[2].time)}

RECURSIVE SumValues(_)
SumValues(S) ==
    IF S = {} THEN 0
    ELSE LET p == CHOOSE x \in S : TRUE IN p[2].value + SumValues(S \ {p})

Earliest(S) == CHOOSE p \in S : \A q \in S : p[2].time <= q[2].time
Latest(S) == CHOOSE p \in S : \A q \in S : p[2].time >= q[2].time

\* An aggregate over a non-empty set of rows, with the time of the row it
\* came from for First and Last.
AggregateOf(agg, S) ==
    CASE agg = "Count" -> [v |-> Cardinality(S), t |-> 0]
      [] agg = "Sum" -> [v |-> SumValues(S), t |-> 0]
      [] agg = "Min" -> [v |-> CHOOSE v \in {p[2].value : p \in S} :
                                  \A q \in S : v <= q[2].value, t |-> 0]
      [] agg = "Max" -> [v |-> CHOOSE v \in {p[2].value : p \in S} :
                                  \A q \in S : v >= q[2].value, t |-> 0]
      [] agg = "First" -> [v |-> Earliest(S)[2].value, t |-> Earliest(S)[2].time]
      [] agg = "Last" -> [v |-> Latest(S)[2].value, t |-> Latest(S)[2].time]

GroupKeys(S) == {p[2].host : p \in S}
Group(S, h) == {p \in S : p[2].host = h}

\* C9: Database.aggregate returns exactly one row per distinct group key
\* across all chunks, and for Count/Sum/Min/Max its value is the aggregate
\* over the union of the chunks' surviving rows.
AggregateOneRowPerGroupKey ==
    ( /\ DatabaseCall("aggregate")
      /\ \A i \in 1..Len(last.args.aggregates) :
            last.args.aggregates[i].agg \in {"Count", "Sum", "Min", "Max"} ) =>
        LET S == Surviving(last.args.db, last.args.time_range, last.args.predicates)
        IN result = Value([rows |->
               {[key |-> h,
                 values |-> [i \in 1..Len(last.args.aggregates) |->
                               AggregateOf(last.args.aggregates[i].agg, Group(S, h)).v]] :
                  h \in GroupKeys(S)}])

\* Merging two partial aggregates of the same group key.
MergePartial(agg, a, b) ==
    CASE agg \in {"Count", "Sum"} -> [v |-> a.v + b.v, t |-> 0]
      [] agg = "Min" -> [v |-> IF b.v < a.v THEN b.v ELSE a.v, t |-> 0]
      [] agg = "Max" -> [v |-> IF b.v > a.v THEN b.v ELSE a.v, t |-> 0]
      [] agg = "First" -> IF b.t < a.t THEN b ELSE a
      [] agg = "Last" -> IF b.t > a.t THEN b ELSE a

\* The orders in which the chunks in K can be merged.
MergeOrders(K) == {o \in [1..Cardinality(K) -> K] : \A i, j \in DOMAIN o : o[i] = o[j] => i = j}

RECURSIVE MergeInOrder(_, _, _, _)
MergeInOrder(agg, S, order, n) ==
    LET part == AggregateOf(agg, {p \in S : p[1] = order[n]})
    IN IF n = 1 THEN part ELSE MergePartial(agg, MergeInOrder(agg, S, order, n - 1), part)

ChunkIntersects(chunk, time_range) ==
    \E r \in chunk.rows : \E q \in chunk.rows :
        r.time < time_range[2] /\ q.time >= time_range[1] /\ time_range[1] < time_range[2]

\* The database with only the chunks whose time range meets [from, to).
CandidateChunks(db, time_range) ==
    LET K == {k \in DOMAIN db.chunks : ChunkIntersects(db.chunks[k], time_range)}
    IN [chunks |-> [k \in K |-> db.chunks[k]], size |-> db.size]

\* What select or aggregate is to return for the surviving rows S.
ExpectedBatch(op, args, S) ==
    IF op = "select" THEN [rows |-> S]
    ELSE [rows |->
            {[key |-> h,
              values |-> [i \in 1..Len(args.aggregates) |->
                            AggregateOf(args.aggregates[i].agg, Group(S, h)).v]] :
               h \in GroupKeys(S)}]

WindowStart(t, w) == t - (t % w)

\* C12: aggregate_window puts each surviving row in the window starting at
\* time - (time mod window) before grouping, so rows of one tag group in
\* different windows give different output rows.
AggregateWindowBucketsBeforeGrouping ==
    (DatabaseCall("aggregate_window") /\ last.args.window > 0) =>
        LET S == Surviving(last.args.db, last.args.time_range, last.args.predicates)
            keys == {<<p[2].host, WindowStart(p[2].time, last.args.window)>> : p \in S}
            bucket(key) == {p \in S : /\ p[2].host = key[1]
                                      /\ WindowStart(p[2].time, last.args.window) = key[2]}
        IN result = Value([rows |->
               {[key |-> key,
                 values |-> [i \in 1..Len(last.args.aggregates) |->
                               AggregateOf(last.args.aggregates[i].agg, bucket(key)).v]] :
                  key \in keys}])

\* ---- C13
NotFoundErrors == {"BucketNotFound", "RouteNotFound"}

BadRequestErrors ==
    {"QueryError", "InvalidQueryString", "ExpectedQueryString", "RequestSizeExceeded",
     "InvalidRequestBody", "InvalidContentEncoding", "ReadingHeaderAsUtf8",
     "ReadingBody", "ReadingBodyAsUtf8", "ParsingLineProtocol", "ReadingBodyAsGzip"}

InternalErrors ==
    {"BucketByName", "BucketMappingError", "WritingPoints", "Query", "DatabaseError",
     "JsonGenerationError"}

ResponseCalled == last.on = "ApplicationError" /\ last.op = "response"

StatusClass(e) ==
    CASE e \in NotFoundErrors -> NOT_FOUND
      [] e \in BadRequestErrors -> BAD_REQUEST
      [] e \in InternalErrors -> INTERNAL_SERVER_ERROR

\* C13: ApplicationError::response never returns Err and answers every
\* variant with the status of its one class: 404 for the absent-resource
\* errors, 400 for the malformed-request and query errors, 500 for the
\* internal failures; the three classes cover all variants and are disjoint.
ResponseMapsEachVariantToItsClass ==
    /\ NotFoundErrors \cup BadRequestErrors \cup InternalErrors = ApplicationError
    /\ NotFoundErrors \cap BadRequestErrors = {}
    /\ NotFoundErrors \cap InternalErrors = {}
    /\ BadRequestErrors \cap InternalErrors = {}
    /\ ResponseCalled =>
          /\ result.kind = "Ok"
          /\ result.value.status = StatusClass(last.args.error)

\* an internal failure raised by a request was answered
AnsweredBucketMappingError ==
    /\ ResponseCalled
    /\ last.args.error = "BucketMappingError"
    /\ result = Ok(internal_error("BucketMappingError"))

\* ---- C17
RECURSIVE RawLen(_)
RawLen(payload) ==
    IF payload = << >> THEN 0 ELSE Head(payload).len + RawLen(Tail(payload))

AllChunksRead(payload) == \A i \in 1..Len(payload) : payload[i].ok

ParseBodyCalled == last.on = "http_routes" /\ last.op = "parse_body"

\* the last parse_body call: its request and its outcome
parsed == [req |-> last.args.req, out |-> result]

RECURSIVE Utf8Valid(_, _)
Utf8Valid(bytes, i) ==
    LET IsCont(j) == j <= Len(bytes) /\ bytes[j] >= 128 /\ bytes[j] <= 191
    IN IF i > Len(bytes) THEN TRUE
       ELSE IF bytes[i] < 128 THEN Utf8Valid(bytes, i + 1)
       ELSE IF bytes[i] >= 194 /\ bytes[i] <= 223
            THEN IsCont(i + 1) /\ Utf8Valid(bytes, i + 2)
       ELSE IF bytes[i] >= 224 /\ bytes[i] <= 239
            THEN IsCont(i + 1) /\ IsCont(i + 2) /\ Utf8Valid(bytes, i + 3)
       ELSE IF bytes[i] >= 240 /\ bytes[i] <= 244
            THEN IsCont(i + 1) /\ IsCont(i + 2) /\ IsCont(i + 3) /\ Utf8Valid(bytes, i + 4)
       ELSE FALSE

\* C18: parse_body accepts only an absent Content-Encoding header (the body
\* comes back as received) or exactly "gzip" (the body comes back gunzipped);
\* a header value that is not UTF-8 fails with ReadingHeaderAsUtf8 and any
\* other value with InvalidContentEncoding, both before a byte of the body
\* is read.
ParseBodyChecksContentEncodingFirst ==
    ParseBodyCalled =>
        LET header == parsed.req.content_encoding
            out == parsed.out
        IN /\ out.result.kind = "Ok" =>
                 \/ ~header.present /\ out.result.value.form = "received"
                 \/ header = Header(GZIP_VALUE) /\ out.result.value.form = "gunzipped"
           /\ (header.present /\ ~Utf8Valid(header.bytes, 1)) =>
                 out.result = Err("ReadingHeaderAsUtf8") /\ out.polled = 0
           /\ (header.present /\ Utf8Valid(header.bytes, 1) /\ header.bytes # GZIP_VALUE) =>
                 out.result = Err("InvalidContentEncoding") /\ out.polled = 0

\* ---- C14
\* The query string names a database: it is there, has org and bucket, and
\* both can be mapped.
QueryNamesDatabase(query, fields) ==
    /\ query.present
    /\ fields \subseteq DOMAIN query.params
    /\ query.params.org \in MappableNames
    /\ query.params.bucket \in MappableNames

\* The body can be read, is within the size limit and is plain or gzip.
BodyDecodable(body) ==
    /\ AllChunksRead(body.payload)
    /\ RawLen(body.payload) <= MAX_SIZE
    /\ \/ ~body.content_encoding.present
       \/ body.content_encoding = Header(GZIP_VALUE) /\ body.gzip.valid

ValidWriteRequest(req) ==
    /\ QueryNamesDatabase(req.query, WriteInfo)
    /\ BodyDecodable(req.body)
    /\ req.text.utf8
    /\ req.text.lines_ok

NamedDatabase(query) == DatabaseName(query.params.org, query.params.bucket)

\* Request r took a step, and it is a valid write request.
ValidWriteStepped(r) == reqs'[r] # reqs[r] /\ ValidWriteRequest(reqs'[r].req)

\* The step of request r called the server operation op.
Invoked(r, op) ==
    /\ Len(reqs'[r].log) = Len(reqs[r].log) + 1
    /\ reqs'[r].log[Len(reqs'[r].log)][1] = op

\* write_lines is called only for a database that exists, and
\* create_database only by a request that found none and has not written.
CreatesBeforeWrites(r) ==
    /\ Invoked(r, "write_lines") =>
          /\ NamedDatabase(reqs[r].req.query) \in DOMAIN server.databases
          /\ reqs[r].log \in {<<<<"db", "value">>>>,
                              <<<<"db", "None">>, <<"create_database", "Ok">>>>}
    /\ Invoked(r, "create_database") => reqs[r].log = <<<<"db", "None">>>>

NoContent == [by |-> "handler", response |-> Response(NO_CONTENT, Body_empty), error |-> "none"]

\* The step left the lines of request r in the open chunk of its database.
LinesWritten(r) ==
    /\ NamedDatabase(reqs'[r].req.query) \in DOMAIN server'.databases
    /\ r \in server'.databases[NamedDatabase(reqs'[r].req.query)].open

\* C14 as stated: a valid write request (plain or gzip) ends with its lines
\* written to the database named from org and bucket and a 204 with an empty
\* body; a missing database is created first, write_lines is never called
\* for a database that does not exist, create_database precedes write_lines.
ValidWriteEndsWith204 ==
    [][\A r \in RequestIds :
          ValidWriteStepped(r) =>
              /\ CreatesBeforeWrites(r)
              /\ reqs'[r].pc = "done" => (reqs'[r].served = NoContent /\ LinesWritten(r))]_vars

ServerCallFailed(log) == \E i \in 1..Len(log) : log[i][2] = "Err"

WritingPointsError ==
    [by |-> "handler", response |-> internal_error("WritingPoints"), error |-> "WritingPoints"]

\* C14, amended: a valid write request ends with its lines written and a 204
\* with an empty body when create_database and write_lines return Ok, and
\* with the 500 of WritingPoints and nothing written by it when one of them
\* returns Err; the order of db, create_database and write_lines is as stated.
ValidWriteEndsWith204UnlessServerFails ==
    [][\A r \in RequestIds :
          ValidWriteStepped(r) =>
              /\ CreatesBeforeWrites(r)
              /\ reqs'[r].pc = "done" =>
                    IF ServerCallFailed(reqs'[r].log)
                    THEN reqs'[r].served = WritingPointsError /\ server' = server
                    ELSE reqs'[r].served = NoContent /\ LinesWritten(r)]_vars

\* a gzip-encoded write created its database, wrote its lines and got 204
GzipWriteCreatedAndWrote ==
    /\ reqs[1].pc = "done"
    /\ reqs[1].req = WriteRequest(GoodQuery, GzipBody, LineProtocol)
    /\ reqs[1].log = <<<<"db", "None">>, <<"create_database", "Ok">>, <<"write_lines", "Ok">>>>
    /\ reqs[1].served = NoContent
    /\ 1 \in server.databases[DatabaseName("MyOrg", "MyBucket")].open

\* ---- C15
LookupRoutes == {"read", "list_partitions", "snapshot_partition"}

RouteFields(op) ==
    CASE op = "read" -> ReadInfo
      [] op = "list_partitions" -> DatabaseInfo
      [] op = "snapshot_partition" -> SnapshotInfo

RouteCalled == last.on = "http_routes" /\ last.op \in LookupRoutes

BucketNotFoundAnswer ==
    [by |-> "handler", response |-> Response(NOT_FOUND, Body_empty), error |-> "BucketNotFound"]

\* C15: a read, list-partitions or snapshot request that names a database
\* the server does not have is answered with 404 and an empty body; the only
\* server call it makes is the lookup, and the server is left as it was.
MissingDatabaseIs404 ==
    [][(RouteCalled' /\ reqs' = reqs
        /\ QueryNamesDatabase(last'.args.req.query, RouteFields(last'.op))
        /\ NamedDatabase(last'.args.req.query) \notin DOMAIN server.databases) =>
            /\ result' = BucketNotFoundAnswer
            /\ calls' = <<"db">>
            /\ server' = server]_vars

\* a snapshot was asked of a database the server does not have, while it
\* has another one
SnapshotOfMissingDatabase ==
    /\ RouteCalled
    /\ last.op = "snapshot_partition"
    /\ QueryNamesDatabase(last.args.req.query, SnapshotInfo)
    /\ NamedDatabase(last.args.req.query) \notin DOMAIN server.databases
    /\ DOMAIN server.databases # {}
    /\ result = BucketNotFoundAnswer

\* ---- C16
\* The request was answered by its handler, and a failure with the response
\* of its ApplicationError.
AnsweredByHandler(served) ==
    /\ served.by = "handler"
    /\ served.error # "none" =>
          /\ served.response = ApplicationError_response(served.error).value
          /\ served.response.status \in {BAD_REQUEST, NOT_FOUND, INTERNAL_SERVER_ERROR}

\* C16: every request is answered by its route handler, a failed one with
\* the 400/404/500 of an ApplicationError; none is left to the router's
\* error_handler and none ends in a panic.
EveryFailureAnsweredByHandler ==
    /\ \A r \in RequestIds : reqs[r].pc = "done" => AnsweredByHandler(reqs[r].served)
    /\ RouteCalled => AnsweredByHandler(result)

\* ---- C19
\* C19: a write request that fails any test made before the server is used
\* (query string, database name, body size and encoding, UTF-8, line
\* protocol) ends in that step, without a call to the server and with the
\* server exactly as it was.
InvalidWriteLeavesServerUntouched ==
    [][\A r \in RequestIds :
          (reqs'[r] # reqs[r] /\ ~ValidWriteRequest(reqs'[r].req)) =>
              /\ reqs'[r].pc = "done"
              /\ reqs'[r].log = << >>
              /\ server' = server]_vars

\* a write whose body is not line protocol was refused after another write
\* had created the database
UnparsableLinesRefused ==
    /\ reqs[2].pc = "done"
    /\ ~reqs[2].req.text.lines_ok /\ reqs[2].req.text.utf8
    /\ reqs[2].served.error = "ParsingLineProtocol"
    /\ reqs[2].served.response.status = BAD_REQUEST
    /\ reqs[1].pc = "done"
    /\ server.created = 1

\* ---- C20
ValidWrites == {r \in RequestIds : reqs[r].pc # "idle" /\ ValidWriteRequest(reqs[r].req)}

\* C20: when two or more valid writes for the same new database have ended
\* and no call to the server returned Err, the database was created exactly
\* once and every one of them was answered 204.
ConcurrentWritesCreateOnce ==
    (/\ Cardinality(ValidWrites) >= 2
     /\ \A r \in ValidWrites : reqs[r].pc = "done" /\ ~ServerCallFailed(reqs[r].log)) =>
        /\ server.created = 1
        /\ \A r \in ValidWrites : reqs[r].served = NoContent

\* ---- C21
\* C21: none of the six Store queries changes the Store: after the call,
\* with the database present or absent, the database map and the size are
\* what they were before it, and every database the call consulted is the
\* one it named.
StoreQueriesLeaveStoreUnchanged ==
    StoreQueryCall =>
        /\ databases = prev.databases
        /\ size = prev.size
        /\ \A i \in 1..Len(calls) :
              /\ calls[i].id = last.args.database_name
              /\ calls[i].db = prev.databases[last.args.database_name]

\* table_names was asked of one of two databases of a Store that is not empty
QueriedOneOfTwoDatabases ==
    /\ StoreCall("table_names")
    /\ last.args.database_name \in DOMAIN databases
    /\ Cardinality(DOMAIN databases) = 2
    /\ size > 0
    /\ Len(calls) = 1
====
